---- MODULE Spec2Model ----
(***************************************************************************)
(* Model of the kitties pallet (pallets/kitties/src/lib.rs): the storage   *)
(* items Kitties and NextKittyId and the two dispatchables create and      *)
(* breed.  Each dispatchable runs to completion as one step.  The pallet   *)
(* is written with decl_module! and carries no #[transactional] attribute, *)
(* so storage written before an Err is returned stays written.             *)
(***************************************************************************)
EXTENDS Integers, Sequences, FiniteSets, TLC

\* ---------------------------------------------------------------- bounds
\* Stands for u32::MAX (lib.rs:74).  KittyId keeps the shape of an unsigned
\* fixed-width integer, 0..U32_MAX, with arithmetic modulo U32_MAX + 1; the
\* width is scaled down so that the counter can actually reach its maximum.
U32_MAX == 3

\* ------------------------------------------------------ program constants
DnaLen == 16
U8Bits == 8

Accounts == {"alice", "bob"}
KittyIds == 0..U32_MAX
DnaIdx   == 0..(DnaLen - 1)

\* Outputs of blake2_128 that create may draw: DnaM has an odd byte 0 and DnaF
\* an even one (byte 1 has the same parity in both).  The two differ in every
\* byte and agree on bits 1 and 3 of every byte, the bits the selector of
\* breed_new takes from the second parent.
DnaM == [i \in DnaIdx |-> <<165, 77, 202, 24, 37, 48, 187, 29, 109, 19, 44, 222, 214, 35, 123, 46>>[i + 1]]
DnaF == [i \in DnaIdx |-> <<80, 185, 207, 72, 129, 33, 90, 89, 152, 147, 25, 218, 23, 70, 235, 219>>[i + 1]]
DnaPool == {DnaM, DnaF}

\* A second even genome, which differs from DnaM in bits 1 and 3 as well (in
\* bits 1 and 3 only in bytes 1 to 3, in every bit in byte 15).
DnaG == [i \in DnaIdx |-> <<238, 71, 200, 16, 208, 248, 195, 105, 238, 200, 187, 239, 230, 237, 255, 209>>[i + 1]]
RichPool == {DnaM, DnaG}

\* Arguments combine_dna is applied to on its own.
ByteSamples == {0, 1, 10, 85, 165, 170, 245, 255}
SelectorSamples == {0, 1, 10, 85, 128, 245, 255}

\* Option<Kitty>: None is the empty tuple, Some(k) the one-element tuple.
None == <<>>
Some(k) == <<k>>

VARIABLES Kitties, NextKittyId, call, result, deposited, createIds

vars == <<Kitties, NextKittyId, call, result, deposited, createIds>>

\* ------------------------------------------------------------ Entity model
\* gender read from byte 1 of the genome instead of byte 0.
gender_of_byte_1(kitty) == IF kitty[1] % 2 = 0 THEN "F" ELSE "M"

gender(kitty) == IF kitty[0] % 2 = 0 THEN "F" ELSE "M"

\* Bitwise !, & and | on u8, bit by bit from the least significant one.
RECURSIVE Not8(_, _)
Not8(x, n) == IF n = 0 THEN 0 ELSE (1 - (x % 2)) + 2 * Not8(x \div 2, n - 1)

RECURSIVE And8(_, _)
And8(x, y) == IF x = 0 \/ y = 0 THEN 0
              ELSE (x % 2) * (y % 2) + 2 * And8(x \div 2, y \div 2)

RECURSIVE Or8(_, _)
Or8(x, y) == IF x = 0 THEN y ELSE IF y = 0 THEN x
             ELSE (IF (x % 2) + (y % 2) > 0 THEN 1 ELSE 0) + 2 * Or8(x \div 2, y \div 2)

\* combine_dna with the two parents' roles exchanged.
combine_dna_swapped(parent_1, parent_2, selector) ==
    Or8(And8(selector, parent_1), And8(Not8(selector, U8Bits), parent_2))

combine_dna(parent_1, parent_2, selector) ==
    Or8(And8(Not8(selector, U8Bits), parent_1), And8(selector, parent_2))

\* ----------------------------------------------------------------- state
Init ==
    /\ Kitties = [key \in Accounts \X KittyIds |-> None]
    /\ NextKittyId = 0
    /\ call = [fn |-> "none", sender |-> "none"]
    /\ result = "none"
    /\ deposited = <<>>
    /\ createIds = {}

\* ------------------------------------------------------ variants of create
\* create with NextKittyId::put(kitty_id) in place of put(kitty_id + 1).
create_no_increment(sender, dna) ==
    /\ call' = [fn |-> "create", sender |-> sender]
    /\ IF NextKittyId = U32_MAX
       THEN /\ result' = "KittiesIdOverflow"
            /\ deposited' = <<>>
            /\ UNCHANGED <<Kitties, NextKittyId, createIds>>
       ELSE /\ Kitties' = [Kitties EXCEPT ![<<sender, NextKittyId>>] = Some(dna)]
            /\ NextKittyId' = NextKittyId
            /\ deposited' = <<[owner |-> sender, kitty_id |-> NextKittyId, kitty |-> dna]>>
            /\ result' = "Ok"
            /\ createIds' = createIds \cup {NextKittyId}

\* create without the ensure! of line 74: the increment wraps at u32::MAX.
create_no_overflow_check(sender, dna) ==
    /\ call' = [fn |-> "create", sender |-> sender]
    /\ Kitties' = [Kitties EXCEPT ![<<sender, NextKittyId>>] = Some(dna)]
    /\ NextKittyId' = (NextKittyId + 1) % (U32_MAX + 1)
    /\ deposited' = <<[owner |-> sender, kitty_id |-> NextKittyId, kitty |-> dna]>>
    /\ result' = "Ok"
    /\ createIds' = createIds \cup {NextKittyId}

\* create whose ensure! rejects one id too early (>= u32::MAX - 1).
create_early_overflow(sender, dna) ==
    /\ call' = [fn |-> "create", sender |-> sender]
    /\ IF NextKittyId >= U32_MAX - 1
       THEN /\ result' = "KittiesIdOverflow"
            /\ deposited' = <<>>
            /\ UNCHANGED <<Kitties, NextKittyId, createIds>>
       ELSE /\ Kitties' = [Kitties EXCEPT ![<<sender, NextKittyId>>] = Some(dna)]
            /\ NextKittyId' = NextKittyId + 1
            /\ deposited' = <<[owner |-> sender, kitty_id |-> NextKittyId, kitty |-> dna]>>
            /\ result' = "Ok"
            /\ createIds' = createIds \cup {NextKittyId}

\* create without the deposit_event of line 92.
create_no_event(sender, dna) ==
    /\ call' = [fn |-> "create", sender |-> sender]
    /\ deposited' = <<>>
    /\ IF NextKittyId = U32_MAX
       THEN /\ result' = "KittiesIdOverflow"
            /\ UNCHANGED <<Kitties, NextKittyId, createIds>>
       ELSE /\ Kitties' = [Kitties EXCEPT ![<<sender, NextKittyId>>] = Some(dna)]
            /\ NextKittyId' = NextKittyId + 1
            /\ result' = "Ok"
            /\ createIds' = createIds \cup {NextKittyId}

\* ---------------------------------------------------------------- create
create(sender, dna) ==
    /\ call' = [fn |-> "create", sender |-> sender]
    /\ IF NextKittyId = U32_MAX
       THEN /\ result' = "KittiesIdOverflow"
            /\ deposited' = <<>>
            /\ UNCHANGED <<Kitties, NextKittyId, createIds>>
       ELSE LET kitty == dna
                kitty_id == NextKittyId
            IN /\ Kitties' = [Kitties EXCEPT ![<<sender, kitty_id>>] = Some(kitty)]
               /\ NextKittyId' = (kitty_id + 1) % (U32_MAX + 1)
               /\ deposited' = <<[owner |-> sender, kitty_id |-> kitty_id, kitty |-> kitty]>>
               /\ result' = "Ok"
               /\ createIds' = createIds \cup {kitty_id}

\* --------------------------------------------------- variant of breed_new
\* breed_new without the ensure! on the parents' genders.
breed_new_no_gender_check(owner, kitty_1, kitty_2) ==
    LET new_kitty == [i \in DnaIdx |-> combine_dna(kitty_1[i], kitty_2[i], 10)]
        inserted == [Kitties EXCEPT ![<<owner, NextKittyId>>] = Some(new_kitty)]
    IN IF NextKittyId + 1 > U32_MAX
       THEN [err |-> "MaxKittiesReachedNow", store |-> inserted]
       ELSE [err |-> "Ok", store |-> inserted, kitty |-> new_kitty,
             id |-> (NextKittyId - 1) % (U32_MAX + 1)]

\* breed_new whose ensure! on the new id fails one id too early.
breed_new_early_max(owner, kitty_1, kitty_2) ==
    IF gender(kitty_1) = gender(kitty_2)
    THEN [err |-> "SameGenderParents", store |-> Kitties]
    ELSE LET new_kitty == [i \in DnaIdx |-> combine_dna(kitty_1[i], kitty_2[i], 10)]
             inserted == [Kitties EXCEPT ![<<owner, NextKittyId>>] = Some(new_kitty)]
         IN IF NextKittyId + 2 > U32_MAX
            THEN [err |-> "MaxKittiesReachedNow", store |-> inserted]
            ELSE [err |-> "Ok", store |-> inserted, kitty |-> new_kitty,
                  id |-> (NextKittyId - 1) % (U32_MAX + 1)]

\* breed_new that inserts under the id after next_kitty_id.
breed_new_insert_next(owner, kitty_1, kitty_2) ==
    IF gender(kitty_1) = gender(kitty_2)
    THEN [err |-> "SameGenderParents", store |-> Kitties]
    ELSE LET new_kitty == [i \in DnaIdx |-> combine_dna(kitty_1[i], kitty_2[i], 10)]
             inserted == [Kitties EXCEPT
                            ![<<owner, (NextKittyId + 1) % (U32_MAX + 1)>>] = Some(new_kitty)]
         IN IF NextKittyId + 1 > U32_MAX
            THEN [err |-> "MaxKittiesReachedNow", store |-> inserted]
            ELSE [err |-> "Ok", store |-> inserted, kitty |-> new_kitty,
                  id |-> (NextKittyId - 1) % (U32_MAX + 1)]

\* breed_new with the selector 0b0010 in place of 0b1010.
breed_new_selector_2(owner, kitty_1, kitty_2) ==
    IF gender(kitty_1) = gender(kitty_2)
    THEN [err |-> "SameGenderParents", store |-> Kitties]
    ELSE LET new_kitty == [i \in DnaIdx |-> combine_dna(kitty_1[i], kitty_2[i], 2)]
             inserted == [Kitties EXCEPT ![<<owner, NextKittyId>>] = Some(new_kitty)]
         IN IF NextKittyId + 1 > U32_MAX
            THEN [err |-> "MaxKittiesReachedNow", store |-> inserted]
            ELSE [err |-> "Ok", store |-> inserted, kitty |-> new_kitty,
                  id |-> (NextKittyId - 1) % (U32_MAX + 1)]

\* ------------------------------------------------------------- breed_new
\* The value returned and the storage left behind by breed_new.
breed_new(owner, kitty_1, kitty_2) ==
    IF gender(kitty_1) = gender(kitty_2)
    THEN [err |-> "SameGenderParents", store |-> Kitties]
    ELSE LET selector == 10
             new_dna == [i \in DnaIdx |-> combine_dna(kitty_1[i], kitty_2[i], selector)]
             new_kitty == new_dna
             next_kitty_id == NextKittyId
             inserted == [Kitties EXCEPT ![<<owner, next_kitty_id>>] = Some(new_kitty)]
         IN IF next_kitty_id + 1 > U32_MAX
            THEN [err |-> "MaxKittiesReachedNow", store |-> inserted]
            ELSE [err |-> "Ok", store |-> inserted, kitty |-> new_kitty,
                  id |-> (next_kitty_id - 1) % (U32_MAX + 1)]

\* ------------------------------------------------------- variant of breed
\* The kitty stored under kitty_id by any account, None if there is none.
AnyOwnerGet(kitty_id) ==
    IF \A a \in Accounts : Kitties[<<a, kitty_id>>] = None THEN None
    ELSE Kitties[<<CHOOSE a \in Accounts : Kitties[<<a, kitty_id>>] # None, kitty_id>>]

\* breed whose two lookups are keyed by the kitty id alone, not by the caller.
breed_any_owner(user, kitti_id_1, kitty_id_2) ==
    /\ call' = [fn |-> "breed", sender |-> user]
    /\ UNCHANGED <<NextKittyId, createIds>>
    /\ IF AnyOwnerGet(kitti_id_1) = None \/ AnyOwnerGet(kitty_id_2) = None
       THEN /\ result' = "KittyNotExixting"
            /\ deposited' = <<>>
            /\ UNCHANGED Kitties
       ELSE \E r \in {breed_new(user, AnyOwnerGet(kitti_id_1)[1], AnyOwnerGet(kitty_id_2)[1])} :
              /\ Kitties' = r.store
              /\ result' = r.err
              /\ deposited' = IF r.err = "Ok"
                              THEN <<[owner |-> user, kitty_id |-> r.id, kitty |-> r.kitty]>>
                              ELSE <<>>

\* ----------------------------------------------------------------- breed
\* Lines 100-102 of breed: the ? on the result r of breed_new, then the one
\* deposit_event.  The value returned, the storage left and the events deposited.
breed_finish(user, r) ==
    IF r.err = "Ok"
    THEN [err |-> "Ok", store |-> r.store,
          events |-> <<[owner |-> user, kitty_id |-> r.id, kitty |-> r.kitty]>>]
    ELSE [err |-> r.err, store |-> r.store, events |-> <<>>]

\* breed_call whose two lookups are keyed by the kitty id alone.
breed_call_any_owner(user, kitti_id_1, kitty_id_2) ==
    IF AnyOwnerGet(kitti_id_1) = None \/ AnyOwnerGet(kitty_id_2) = None
    THEN [err |-> "KittyNotExixting", store |-> Kitties, events |-> <<>>]
    ELSE breed_finish(user, breed_new(user, AnyOwnerGet(kitti_id_1)[1],
                                            AnyOwnerGet(kitty_id_2)[1]))

\* What breed(user, kitti_id_1, kitty_id_2) does from the current state.
breed_call(user, kitti_id_1, kitty_id_2) ==
    IF Kitties[<<user, kitti_id_1>>] = None \/ Kitties[<<user, kitty_id_2>>] = None
    THEN [err |-> "KittyNotExixting", store |-> Kitties, events |-> <<>>]
    ELSE LET kitty_1 == Kitties[<<user, kitti_id_1>>][1]
             kitty_2 == Kitties[<<user, kitty_id_2>>][1]
         IN breed_finish(user, breed_new(user, kitty_1, kitty_2))

breed(user, kitti_id_1, kitty_id_2) ==
    /\ call' = [fn |-> "breed", sender |-> user]
    /\ UNCHANGED <<NextKittyId, createIds>>
    /\ \E done \in {breed_call(user, kitti_id_1, kitty_id_2)} :
          /\ result' = done.err
          /\ Kitties' = done.store
          /\ deposited' = done.events

Create == \E sender \in Accounts, dna \in DnaPool : create(sender, dna)
Breed  == \E user \in Accounts, i \in KittyIds, j \in KittyIds : breed(user, i, j)

Next == Create \/ Breed

Spec == Init /\ [][Next]_vars

\* -------------------------------------------- one account, mixing genomes
\* The pallet driven by one account whose creates draw from RichPool, so that
\* the offspring of breed mix the bits of two parents.
CreateRich == \E dna \in RichPool : create("alice", dna)
BreedRich  == \E i \in KittyIds, j \in KittyIds : breed("alice", i, j)

NextDna == CreateRich \/ BreedRich

SpecDna == Init /\ [][NextDna]_vars

\* ---------------------------------------------------- combine_dna on its own
\* One application of combine_dna: call holds the arguments, result the value
\* returned.
InitCombine ==
    /\ Kitties = [key \in Accounts \X KittyIds |-> None]
    /\ NextKittyId = 0
    /\ deposited = <<>>
    /\ createIds = {}
    /\ result = "none"
    /\ \E a \in 0..255, b \in ByteSamples, s \in SelectorSamples :
          call = [fn |-> "combine_dna", sender |-> "none", returned |-> FALSE,
                  parent_1 |-> a, parent_2 |-> b, selector |-> s]

CombineDna ==
    /\ call.fn = "combine_dna" /\ ~call.returned
    /\ result' = combine_dna(call.parent_1, call.parent_2, call.selector)
    /\ call' = [call EXCEPT !.returned = TRUE]
    /\ UNCHANGED <<Kitties, NextKittyId, deposited, createIds>>

SpecCombine == InitCombine /\ [][CombineDna]_vars

TypeOK ==
    /\ NextKittyId \in KittyIds
    /\ \A key \in Accounts \X KittyIds : Len(Kitties[key]) <= 1
    /\ Len(deposited) <= 1

\* ------------------------------------------------------------ properties
Keys == Accounts \X KittyIds

Present(owner, kitty_id) == Kitties[<<owner, kitty_id>>] # None

\* Genome byte 0 of both even, or of both odd.
SameSex(kitty_1, kitty_2) == (kitty_1[0] % 2) = (kitty_2[0] % 2)

Failed(r) == r \in {"KittiesIdOverflow", "SameGenderParents",
                    "MaxKittiesReachedNow", "KittyNotExixting"}

\* C1: a successful breed stores the offspring under (caller, n), n the value
\* of NextKittyId before the call, and leaves NextKittyId at n + 1.
C1_BreedAllocatesAsCreate ==
    [][(call'.fn = "breed" /\ result' = "Ok") =>
         /\ Kitties'[<<call'.sender, NextKittyId>>] = Some(deposited'[1].kitty)
         /\ NextKittyId' = NextKittyId + 1]_vars

\* C2: after a successful breed the store maps (caller, id of the
\* KittyCreated event) to the kitty of the event.
C2_BreedEventIdIsStoredId ==
    (call.fn = "breed" /\ result = "Ok") =>
        /\ Len(deposited) = 1
        /\ deposited[1].owner = call.sender
        /\ Kitties[<<call.sender, deposited[1].kitty_id>>] = Some(deposited[1].kitty)

\* C3: an entry of the store, once present, stays present with the same kitty.
C3_EntriesImmutable ==
    [][\A key \in Keys : Kitties[key] # None => Kitties'[key] = Kitties[key]]_vars

\* C4: every id in use is strictly below NextKittyId.
C4_IdsBelowNextKittyId ==
    \A key \in Keys : Kitties[key] # None => key[2] < NextKittyId

\* C5: a call that returns an error leaves Kitties and NextKittyId as they were.
C5_FailureIsNoOp ==
    [][Failed(result') => UNCHANGED <<Kitties, NextKittyId>>]_vars

\* C6: a successful create notifies the id NextKittyId had before the call,
\* stores the kitty under (caller, that id) and leaves NextKittyId at id + 1.
C6_CreateAllocatesNextId ==
    [][(call'.fn = "create" /\ result' = "Ok") =>
         /\ Len(deposited') = 1
         /\ deposited'[1].owner = call'.sender
         /\ deposited'[1].kitty_id = NextKittyId
         /\ Kitties'[<<call'.sender, NextKittyId>>] = Some(deposited'[1].kitty)
         /\ NextKittyId' = deposited'[1].kitty_id + 1]_vars

C6_Witness ==
    /\ call.fn = "create" /\ result = "Ok"
    /\ NextKittyId = 2
    /\ Len(deposited) = 1 /\ deposited[1].kitty_id = 1
    /\ Kitties[<<call.sender, 1>>] = Some(deposited[1].kitty)

\* C7: a successful create is never given an id that an earlier successful
\* create, by any account, was given.
C7_CreateIdsNeverRepeat ==
    [][(call'.fn = "create" /\ result' = "Ok") =>
         deposited'[1].kitty_id \notin createIds]_vars

C7_Witness ==
    /\ call.fn = "create" /\ result = "Ok" /\ call.sender = "bob"
    /\ createIds = {0, 1}
    /\ Present("alice", 0) /\ Present("bob", 1)
    /\ deposited[1].kitty_id = 1

\* C8: breed with both parents stored under the caller and of the same sex
\* (equal parity of genome byte 0) returns SameGenderParents, changes neither
\* Kitties nor NextKittyId and deposits no event; the two ids may be equal.
C8_SameSexRejected ==
    [][call'.fn = "breed" =>
         \A i \in KittyIds, j \in KittyIds :
            ( /\ Present(call'.sender, i) /\ Present(call'.sender, j)
              /\ SameSex(Kitties[<<call'.sender, i>>][1], Kitties[<<call'.sender, j>>][1])
              /\ breed(call'.sender, i, j) )
            => /\ result' = "SameGenderParents"
               /\ UNCHANGED <<Kitties, NextKittyId>>
               /\ deposited' = <<>>]_vars

\* The caller owns exactly one kitty, so the rejected call named it twice.
C8_Witness ==
    /\ call.fn = "breed" /\ result = "SameGenderParents" /\ deposited = <<>>
    /\ Cardinality({i \in KittyIds : Present(call.sender, i)}) = 1

\* C9: breed with either id absent under the caller returns KittyNotExixting,
\* whatever other accounts store under that id and whatever the other parent
\* is, changes neither Kitties nor NextKittyId and deposits no event.
C9_AbsentParentRejected ==
    [][call'.fn = "breed" =>
         \A i \in KittyIds, j \in KittyIds :
            ( /\ ~Present(call'.sender, i) \/ ~Present(call'.sender, j)
              /\ breed(call'.sender, i, j) )
            => /\ result' = "KittyNotExixting"
               /\ UNCHANGED <<Kitties, NextKittyId>>
               /\ deposited' = <<>>]_vars

\* bob stores nothing and alice stores a kitty under every id, so both ids of
\* bob's rejected call exist under alice only.
C9_Witness ==
    /\ call.fn = "breed" /\ call.sender = "bob" /\ result = "KittyNotExixting"
    /\ deposited = <<>>
    /\ \A i \in KittyIds : Present("alice", i) /\ ~Present("bob", i)

\* C10: with NextKittyId at u32::MAX create returns KittiesIdOverflow, changes
\* neither Kitties nor NextKittyId and deposits no event; with NextKittyId
\* below u32::MAX create does not return KittiesIdOverflow.
C10_CreateOverflow ==
    [][call'.fn = "create" =>
         IF NextKittyId = U32_MAX
         THEN /\ result' = "KittiesIdOverflow"
              /\ UNCHANGED <<Kitties, NextKittyId>>
              /\ deposited' = <<>>
         ELSE result' # "KittiesIdOverflow"]_vars

C10_Witness ==
    /\ call.fn = "create" /\ result = "KittiesIdOverflow"
    /\ NextKittyId = U32_MAX
    /\ deposited = <<>>

\* C11: a call that returns Ok deposits exactly one KittyCreated event, for the
\* caller and with a kitty the store holds under the caller; a call that
\* returns an error deposits none.
C11_OneEventIffOk ==
    [][ /\ result' = "Ok" =>
             /\ Len(deposited') = 1
             /\ deposited'[1].owner = call'.sender
             /\ \E i \in KittyIds :
                   Kitties'[<<call'.sender, i>>] = Some(deposited'[1].kitty)
        /\ Failed(result') => deposited' = <<>> ]_vars

\* A failing breed right where the caller's store holds an entry at u32::MAX:
\* the entry was written, no event was deposited.
C11_Witness ==
    /\ call.fn = "breed" /\ result = "MaxKittiesReachedNow"
    /\ deposited = <<>>
    /\ Present(call.sender, U32_MAX)

\* C14 (as stated): no call ever returns MaxKittiesReachedNow.
C14_MaxKittiesUnreachable == result # "MaxKittiesReachedNow"

\* C14 (amended): MaxKittiesReachedNow is returned by breed only, and only
\* when NextKittyId is u32::MAX; create never returns it.
C14_MaxKittiesOnlyBreedAtMax ==
    [][result' = "MaxKittiesReachedNow" =>
         call'.fn = "breed" /\ NextKittyId = U32_MAX]_vars

C14_Witness ==
    /\ call.fn = "breed" /\ result = "MaxKittiesReachedNow"
    /\ NextKittyId = U32_MAX

\* C15: a call that returns Ok writes its kitty under an id that no account
\* has an entry under, so no id is shared by two creations or two owners.
C15_IdsNeverReused ==
    [][result' = "Ok" =>
         \A key \in Keys :
            Kitties'[key] # Kitties[key] =>
               \A a \in Accounts : ~Present(a, key[2])]_vars

\* C16: NextKittyId never decreases and never exceeds u32::MAX, it changes by
\* exactly one, and the kitty_id + 1 of create is evaluated only below u32::MAX.
C16_NextKittyIdMonotone ==
    [][ /\ NextKittyId' >= NextKittyId
        /\ NextKittyId' <= U32_MAX
        /\ NextKittyId' # NextKittyId => NextKittyId' = NextKittyId + 1
        /\ (call'.fn = "create" /\ result' = "Ok") => NextKittyId < U32_MAX ]_vars

C16_Witness ==
    /\ call.fn = "create" /\ result = "Ok"
    /\ NextKittyId = U32_MAX
    /\ deposited[1].kitty_id = U32_MAX - 1

\* C18: whenever some account stores two kitties of different sex, so that
\* breed reaches next_kitty_id - 1, NextKittyId is at least 2.
C18_NoUnderflow ==
    \A u \in Accounts, i \in KittyIds, j \in KittyIds :
       ( /\ Present(u, i) /\ Present(u, j)
         /\ gender(Kitties[<<u, i>>][1]) # gender(Kitties[<<u, j>>][1]) )
       => NextKittyId >= 2

\* breed returned Ok with the smallest counter it can see.
C18_Witness ==
    /\ call.fn = "breed" /\ result = "Ok"
    /\ NextKittyId = 2
    /\ deposited[1].kitty_id = 1

\* C20: every id in use is at most NextKittyId, and the store is empty while
\* NextKittyId is 0.
C20_IdsAtMostNextKittyId ==
    /\ \A key \in Keys : Kitties[key] # None => key[2] <= NextKittyId
    /\ NextKittyId = 0 => \A key \in Keys : Kitties[key] = None

\* A breed left its offspring under the id NextKittyId still names.
C20_Witness ==
    /\ call.fn = "breed" /\ result = "Ok"
    /\ Present(call.sender, NextKittyId)

\* C17: with both ids stored under the caller, genome bytes 0 of different
\* parity and NextKittyId below u32::MAX, breed returns Ok; and breed(u, i, j)
\* returns Ok exactly when breed(u, j, i) does from the same state.
C17_BreedSucceedsOnDifferentSex ==
    \A u \in Accounts, i \in KittyIds, j \in KittyIds :
       /\ ( /\ Present(u, i) /\ Present(u, j)
            /\ ~SameSex(Kitties[<<u, i>>][1], Kitties[<<u, j>>][1])
            /\ NextKittyId < U32_MAX )
          => breed_call(u, i, j).err = "Ok"
       /\ i < j => ( breed_call(u, i, j).err = "Ok" <=> breed_call(u, j, i).err = "Ok" )

\* A breed returned Ok with a female first parent (the offspring takes bit 0
\* of byte 0 from the first parent) while the caller also stores a male.
C17_Witness ==
    /\ call.fn = "breed" /\ result = "Ok"
    /\ deposited[1].kitty[0] % 2 = 0
    /\ \E i \in KittyIds : /\ Present(call.sender, i)
                           /\ Kitties[<<call.sender, i>>][1][0] % 2 = 1

\* C19: a call leaves every entry of every other account as it was, and a
\* breed that gets past its lookups finds its parents among the caller's own
\* entries: one entry when it returns SameGenderParents, two entries with
\* genome bytes 0 of different parity when it gets past the gender check.
C19_OwnershipIsolation ==
    [][ /\ \A key \in Keys : key[1] # call'.sender => Kitties'[key] = Kitties[key]
        /\ (call'.fn = "breed" /\ result' = "SameGenderParents") =>
              \E i \in KittyIds : Present(call'.sender, i)
        /\ (call'.fn = "breed" /\ result' \in {"Ok", "MaxKittiesReachedNow"}) =>
              \E i \in KittyIds, j \in KittyIds :
                 /\ Present(call'.sender, i) /\ Present(call'.sender, j)
                 /\ ~SameSex(Kitties[<<call'.sender, i>>][1],
                             Kitties[<<call'.sender, j>>][1]) ]_vars

\* bob's breed got past its lookups and wrote under (bob, u32::MAX) while
\* alice stores a kitty.
C19_Witness ==
    /\ call.fn = "breed" /\ call.sender = "bob" /\ result = "MaxKittiesReachedNow"
    /\ Present("bob", U32_MAX)
    /\ \E i \in KittyIds : Present("alice", i)

\* Bit k of the byte x.
Bit(x, k) == (x \div (2 ^ k)) % 2

\* out takes each bit from b where the selector has a 1 and from a where it
\* has a 0, which is what (~selector & a) | (selector & b) denotes on u8.
Selects(out, a, b, selector) ==
    /\ out \in 0..255
    /\ \A k \in 0..(U8Bits - 1) :
          Bit(out, k) = IF Bit(selector, k) = 1 THEN Bit(b, k) ELSE Bit(a, k)

\* C12: when breed(u, i, j) returns Ok, every byte of the offspring, the kitty
\* of the event and of the new entry, is (~10 & gA) | (10 & gB) of the same
\* byte of the two stored parents.
C12_OffspringGenome ==
    \A u \in Accounts, i \in KittyIds, j \in KittyIds :
       \A done \in {breed_call(u, i, j)} :
          done.err = "Ok" =>
             /\ done.store[<<u, NextKittyId>>] = Some(done.events[1].kitty)
             /\ \A b \in DnaIdx :
                   Selects(done.events[1].kitty[b],
                           Kitties[<<u, i>>][1][b], Kitties[<<u, j>>][1][b], 10)

\* A breed returned Ok with an offspring that is neither of the two genomes
\* create draws: it has bits of both parents.
C12_Witness ==
    /\ call.fn = "breed" /\ result = "Ok"
    /\ deposited[1].kitty \notin RichPool
    /\ Kitties[<<call.sender, NextKittyId>>] = Some(deposited[1].kitty)

\* C13: combine_dna(a, b, s) takes each bit from b where s has a 1 and from a
\* where s has a 0; with s = 0 it is a and with s = 0xFF it is b.
C13_CombineSelects ==
    (call.fn = "combine_dna" /\ call.returned) =>
       /\ Selects(result, call.parent_1, call.parent_2, call.selector)
       /\ call.selector = 0 => result = call.parent_1
       /\ call.selector = 255 => result = call.parent_2

C13_Witness ==
    /\ call.fn = "combine_dna" /\ call.returned
    /\ call.selector = 255 /\ call.parent_1 = 170 /\ call.parent_2 = 85
    /\ result = 85
====
